---- MODULE Spec2Model ----
(***************************************************************************)
(* Persistent scheduled-task engine of genia-mcp-scheduler.                *)
(*                                                                         *)
(* The task store is the scheduled_tasks table (app/db/models.py), the     *)
(* trigger engine is the APScheduler AsyncIOScheduler with its             *)
(* SQLAlchemyJobStore on the same database engine, and the dispatcher is   *)
(* SchedulerService.execute_scheduled_task_job.  Every scheduler process   *)
(* of the pool (scheduler_service.py:39 creates one scheduler per process, *)
(* lines 46-60 expect "another worker/process") shares the two tables.     *)
(*                                                                         *)
(* Time is counted in ticks of SecondsPerTick seconds; the host clock and  *)
(* the scheduler's timezone are taken to be UTC.                           *)
(***************************************************************************)
EXTENDS Integers, FiniteSets, Sequences, TLC

\* ---------------------------------------------------------------- bounds
NumIds == 1
NumWorkers == 2
MaxTime == 4
MaxSched == 1
MaxRestarts == 1
SecondsPerTick == 1800

\* ------------------------------------------------------ program constants
\* scheduler.add_job(..., misfire_grace_time=3600)
MISFIRE_GRACE_TIME == 3600

Ids == 1..NumIds
Workers == 1..NumWorkers
SchedTimes == 0..MaxSched

\* ScheduledTaskStatus (app/models/task.py)
PENDING == "pending"
RUNNING == "running"
COMPLETED == "completed"
FAILED == "failed"
CANCELLED == "cancelled"
ScheduledTaskStatus == {PENDING, RUNNING, COMPLETED, FAILED, CANCELLED}

\* TargetPlatform members the model distinguishes: one whose base URL is a
\* field of Settings, and EMAIL, whose base URL is not.
LINKEDIN == "linkedin"
EMAIL == "email"
TargetPlatform == {LINKEDIN, EMAIL}

\* settings.DATABASE_URL: the dialect of the shared engine
Dialects == {"sqlite", "postgresql"}

\* a row of scheduled_tasks; NoTask stands for "no row with this task_id"
NoTask == [status |-> "absent", platform |-> "none", sched |-> 0, result |-> "none"]
ScheduledTaskTable(st, pf, at, res) ==
    [status |-> st, platform |-> pf, sched |-> at, result |-> res]

\* no row in apscheduler_jobs for this id
NoJob == -1

\* an invocation of execute_scheduled_task_job: its position, and the platform
\* and scheduled_at_utc of the ScheduledTaskTable object it loaded (line 180)
Idle == [pc |-> "idle", platform |-> "none", sched |-> 0]
Job(pc, row) == [pc |-> pc, platform |-> row.platform, sched |-> row.sched]

\* the trigger of this id was never evaluated
NotEvaluated == -1

\* a call that has just returned: the operation, its task id, the value it
\* returned and what it found stored for the id when it started
NoReturn == [op |-> "none", id |-> 0, value |-> "none", found |-> "none"]
Return(op, id, value, found) == [op |-> op, id |-> id, value |-> value, found |-> found]

\* ------------------------------------------------------------ JSON values
\* a JSON value: t is its kind, v the text of a scalar, kids the members of
\* a dict as <<key, value>> pairs (of a list as <<"", value>> pairs), in
\* insertion order
JStr(str) == [t |-> "str", v |-> str, kids |-> <<>>]
JNum(num) == [t |-> "num", v |-> num, kids |-> <<>>]
JLit(lit) == [t |-> "lit", v |-> lit, kids |-> <<>>]
JDict(kids) == [t |-> "dict", v |-> "", kids |-> kids]
JList(items) == [t |-> "list", v |-> "", kids |-> [i \in 1..Len(items) |-> <<"", items[i]>>]]

\* a token of JSON text
Tok(k, str) == [k |-> k, s |-> str]

\* ScheduledTaskPayload (app/models/task.py 29-33)
ScheduledTaskPayload(endpoint, body, tokens) ==
    [mcp_target_endpoint |-> endpoint, mcp_request_body |-> body,
     user_platform_tokens |-> tokens]
NoPayload == ScheduledTaskPayload("none", JLit("null"), JLit("null"))

\* the payloads the conversions are applied to
Endpoints == {"", "/email/send", "/linkedin/publish"}
RequestBodies ==
    {JDict(<<>>),
     JDict(<< <<"text", JStr("hello")>> >>),
     JDict(<< <<"to", JStr("a@b.c")>>, <<"retries", JNum("3")>> >>),
     JDict(<< <<"opts", JDict(<< <<"draft", JLit("true")>> >>)>> >>),
     JDict(<< <<"tags", JList(<<JStr("x"), JLit("null")>>)>>, <<"n", JNum("1.5")>> >>),
     JDict(<< <<"mcp_target_endpoint", JStr("/inner")>>,
              <<"user_platform_tokens", JDict(<<>>)>> >>)}
PlatformTokens ==
    {JDict(<<>>),
     JDict(<< <<"access_token", JStr("tok")>> >>),
     JDict(<< <<"access_token", JStr("tok")>>, <<"expires_in", JNum("3600")>> >>)}
ScheduledTaskPayloads ==
    {ScheduledTaskPayload(e, b, k) : e \in Endpoints, b \in RequestBodies, k \in PlatformTokens}

\* a ScheduledTaskTable object with the columns the conversions use
NoRow == [status |-> "absent", result |-> "none", task_payload_json |-> <<>>,
          user_platform_tokens_json |-> <<>>, created_at_utc |-> 0, updated_at_utc |-> 0]

\* ---------------------------------------------------------- query values
MaxRows == 2
Owners == {"u1", "u2"}
None == "None"
NotListed == [genia_user_id |-> None, status |-> None, platform_name |-> None,
              tasks |-> <<>>, called |-> FALSE]

\* what the outbound POST can come back with
Outcomes == {"2xx_json", "2xx_empty", "2xx_not_json", "http_error", "request_error"}

VARIABLES
    tasks,      \* scheduled_tasks: task_id -> row or NoTask
    jobs,       \* apscheduler_jobs: job id -> run_date or NoJob
    procs,      \* procs[w][id]: position of execute_scheduled_task_job(id) in process w
    posts,      \* number of outbound POSTs issued for each task id
    now,        \* the clock
    restarts,   \* number of process restarts so far
    dialect,    \* database dialect of settings.DATABASE_URL
    created,    \* number of task ids uuid4 has given out
    cancelled,  \* the ids cancelled before execution: delete_task returned True
                \* while the row was PENDING and no job execution had loaded it
    evaluated,  \* evaluated[id]: how many ticks after run_date the trigger was evaluated
    workers,    \* the scheduler processes of this deployment
    MCP_LINKEDIN_BASE_URL,  \* settings.MCP_LINKEDIN_BASE_URL of this deployment
    ret,        \* the call that returned in the last step, with what it returned
    task_in,    \* the task_payload of a CreateScheduledTaskRequest under conversion
    db_task,    \* the ScheduledTaskTable object built from task_in
    response,   \* the task_payload of the ScheduledTaskResponse made from db_task
    table,      \* the rows a get_tasks query runs on, in insertion order
    listed      \* the filters of the last get_tasks call and the rows it returned

config == <<dialect, workers, MCP_LINKEDIN_BASE_URL>>
calls == <<task_in, db_task, response, table, listed>>
service == <<tasks, jobs, procs, posts, now, restarts, created, cancelled, evaluated,
             config, ret>>
vars == <<tasks, jobs, procs, posts, now, restarts, created, cancelled, evaluated, config, ret,
          calls>>

\* ----------------------------------------------------------------- helpers
Exists(id) == tasks[id] # NoTask

\* some execute_scheduled_task_job(id) holds the row it loaded at line 180
Loaded(id) == \E w \in Workers : procs[w][id].pc \in {"checked", "running", "posting"}

\* uuid.uuid4(): an id that was never given out (ids are given out in order,
\* which only names them)
Fresh(id) == id = created + 1

\* settings.<attribute> of _get_mcp_base_url; Settings declares no
\* MCP_EMAIL_BASE_URL, so reading it raises AttributeError.
_get_mcp_base_url(platform) ==
    IF platform = EMAIL THEN "AttributeError" ELSE MCP_LINKEDIN_BASE_URL

\* update_task_status_in_db: the row after the write, when the row exists;
\* the result is overwritten only when it is truthy ("" stands for {} / []).
\* a status update that also resets the schedule of the row
UpdatedRowReschedules(row, status, result) ==
    [row EXCEPT !.status = status,
                !.result = IF result # "" THEN result ELSE @,
                !.sched = 0]

UpdatedRow(row, status, result) ==
    [row EXCEPT !.status = status,
                !.result = IF result # "" THEN result ELSE @]

\* a status update that writes a row even when none is stored for the id
update_task_status_upsert(id, status, result) ==
    tasks' = [tasks EXCEPT ![id] =
                 IF Exists(id) THEN UpdatedRow(tasks[id], status, result)
                 ELSE ScheduledTaskTable(status, "none", 0, result)]

update_task_status_in_db(id, status, result) ==
    IF Exists(id)
    THEN tasks' = [tasks EXCEPT ![id] = UpdatedRow(tasks[id], status, result)]
    ELSE UNCHANGED tasks

\* ------------------------------------------------------------------- Init
InitState ==
    /\ tasks = [id \in Ids |-> NoTask]
    /\ jobs = [id \in Ids |-> NoJob]
    /\ procs = [w \in Workers |-> [id \in Ids |-> Idle]]
    /\ posts = [id \in Ids |-> 0]
    /\ now = 0
    /\ restarts = 0
    /\ dialect \in Dialects
    /\ created = 0
    /\ cancelled = {}
    /\ evaluated = [id \in Ids |-> NotEvaluated]
    /\ ret = NoReturn

\* one scheduler process (uvicorn.run of app.main:app, main.py:66)
\* Settings (config.py 15): the default of the field, and the value an
\* environment that sets the variable to nothing gives it
DefaultBaseUrl == "http://localhost:8002/api/v1"
BaseUrls == {DefaultBaseUrl, ""}

NoCalls ==
    /\ task_in = NoPayload
    /\ db_task = NoRow
    /\ response = NoPayload
    /\ table = <<>>
    /\ listed = NotListed

Init == InitState /\ workers = {1} /\ NoCalls /\ MCP_LINKEDIN_BASE_URL = DefaultBaseUrl

\* a pool of scheduler processes on the same database
PoolInit == InitState /\ workers = Workers /\ NoCalls /\ MCP_LINKEDIN_BASE_URL = DefaultBaseUrl

\* one process on SQLite whose environment may leave the base URL empty
ConfigInit ==
    /\ InitState
    /\ dialect = "sqlite"
    /\ workers = {1}
    /\ NoCalls
    /\ MCP_LINKEDIN_BASE_URL \in BaseUrls

\* ---------------------------------------------------------------- actions
\* SchedulerService.create_task: commit the PENDING row, then add_job; an
\* exception of add_job is logged and swallowed.  Line 82 hands the keyword
\* task_type to ScheduledTaskTable, which declares no such column
\* (db/models.py 11-38); the action is the constructor accepting it, the
\* only way a record comes to exist.
create_task(id, platform, scheduled_at_utc, add_job_raises) ==
    /\ Fresh(id)
    /\ tasks' = [tasks EXCEPT ![id] =
                    ScheduledTaskTable(PENDING, platform, scheduled_at_utc, "none")]
    /\ created' = id
    /\ jobs' = IF add_job_raises THEN jobs
               ELSE [jobs EXCEPT ![id] = scheduled_at_utc]
    /\ ret' = Return("create_task", id, "record", "absent")
    /\ UNCHANGED <<procs, posts, now, restarts, cancelled, evaluated, config, calls>>

\* the clock advances
Tick ==
    /\ now < MaxTime
    /\ now' = now + 1
    /\ ret' = NoReturn
    /\ UNCHANGED <<tasks, jobs, procs, posts, restarts, created, cancelled, evaluated, config, calls>>

\* a job taken as due whatever its run_date
DueAtOnce(run_date) == TRUE

\* DateTrigger / get_due_jobs: the job is due once run_date has been reached
Due(run_date) == run_date <= now

\* misfire_grace_time=None: no run is ever missed
MissedNever(run_date) == FALSE

\* no grace at all: every late run is missed
MissedWhenLate(run_date) == now > run_date

\* run_coroutine_job: a run later than misfire_grace_time seconds is missed
Missed(run_date) == (now - run_date) * SecondsPerTick > MISFIRE_GRACE_TIME

\* BaseScheduler._process_jobs for the date job added at lines 91-99, in the
\* scheduler processes W that read the job as due before its row is removed:
\* each submits execute_scheduled_task_job(id) unless the run is missed; a
\* date trigger has no next run time, so the job row is removed.
ProcessJob(W, id) ==
    /\ W # {}
    /\ W \subseteq workers
    /\ jobs[id] # NoJob
    /\ Due(jobs[id])
    /\ \A w \in W : procs[w][id] = Idle
    /\ jobs' = [jobs EXCEPT ![id] = NoJob]
    /\ procs' = IF Missed(jobs[id]) THEN procs
                ELSE [w \in Workers |->
                        IF w \in W THEN [procs[w] EXCEPT ![id].pc = "start"]
                        ELSE procs[w]]
    /\ evaluated' = [evaluated EXCEPT ![id] = now - jobs[id]]
    /\ ret' = NoReturn
    /\ UNCHANGED <<tasks, posts, now, restarts, created, cancelled, config, calls>>

\* a guard that lets every stored row through, whatever its status
ExecGuardAnyStatus(id) == Exists(id)

\* _execute_task_logic lines 180-187: load the row; stop when it is missing
\* or neither PENDING nor RUNNING.
ExecGuard(id) == Exists(id) /\ tasks[id].status \in {PENDING, RUNNING}

ExecRead(w, id) ==
    /\ procs[w][id].pc = "start"
    /\ procs' = [procs EXCEPT ![w][id] =
                    IF ExecGuard(id) THEN Job("checked", tasks[id]) ELSE Idle]
    /\ ret' = IF ExecGuard(id) THEN NoReturn
              ELSE Return("execute_scheduled_task_job", id, "skipped", tasks[id].status)
    /\ UNCHANGED <<tasks, jobs, posts, now, restarts, created, cancelled, evaluated, config, calls>>

\* line 189: update_task_status_in_db(task_id, RUNNING)
ExecMarkRunning(w, id) ==
    /\ procs[w][id].pc = "checked"
    /\ update_task_status_in_db(id, RUNNING, "")
    /\ procs' = [procs EXCEPT ![w][id].pc = "running"]
    /\ ret' = NoReturn
    /\ UNCHANGED <<jobs, posts, now, restarts, created, cancelled, evaluated, config, calls>>

\* a dispatch that does not test the base URL before it builds the address
ExecDispatchNoUrlCheck(w, id) ==
    /\ procs[w][id].pc = "running"
    /\ LET url == _get_mcp_base_url(procs[w][id].platform) IN
         IF url = "AttributeError"
         THEN /\ update_task_status_in_db(id, FAILED, "wrapper_error")
              /\ procs' = [procs EXCEPT ![w][id] = Idle]
              /\ ret' = Return("execute_scheduled_task_job", id, "returned", tasks[id].status)
              /\ UNCHANGED posts
         ELSE /\ posts' = [posts EXCEPT ![id] = @ + 1]
              /\ procs' = [procs EXCEPT ![w][id].pc = "posting"]
              /\ ret' = NoReturn
              /\ UNCHANGED tasks
    /\ UNCHANGED <<jobs, now, restarts, created, cancelled, evaluated, config, calls>>

\* a dispatch whose caller does not record the exception that leaves it
ExecDispatchNoWrapper(w, id) ==
    /\ procs[w][id].pc = "running"
    /\ LET url == _get_mcp_base_url(procs[w][id].platform) IN
         IF url = "AttributeError"
         THEN /\ procs' = [procs EXCEPT ![w][id] = Idle]
              /\ ret' = Return("execute_scheduled_task_job", id, "returned", tasks[id].status)
              /\ UNCHANGED <<tasks, posts>>
         ELSE IF url = ""
         THEN /\ update_task_status_in_db(id, FAILED, "url_not_configured")
              /\ procs' = [procs EXCEPT ![w][id] = Idle]
              /\ ret' = Return("execute_scheduled_task_job", id, "returned", tasks[id].status)
              /\ UNCHANGED posts
         ELSE /\ posts' = [posts EXCEPT ![id] = @ + 1]
              /\ procs' = [procs EXCEPT ![w][id].pc = "posting"]
              /\ ret' = NoReturn
              /\ UNCHANGED tasks
    /\ UNCHANGED <<jobs, now, restarts, created, cancelled, evaluated, config, calls>>

\* lines 191-215: resolve the base URL from the loaded object and issue the
\* POST.  An AttributeError of settings leaves _execute_task_logic and is
\* recorded by the wrapper (lines 171-173); an empty URL is recorded at 202.
ExecDispatch(w, id) ==
    /\ procs[w][id].pc = "running"
    /\ LET url == _get_mcp_base_url(procs[w][id].platform) IN
         IF url = "AttributeError"
         THEN /\ update_task_status_in_db(id, FAILED, "wrapper_error")
              /\ procs' = [procs EXCEPT ![w][id] = Idle]
              /\ ret' = Return("execute_scheduled_task_job", id, "returned", tasks[id].status)
              /\ UNCHANGED posts
         ELSE IF url = ""
         THEN /\ update_task_status_in_db(id, FAILED, "url_not_configured")
              /\ procs' = [procs EXCEPT ![w][id] = Idle]
              /\ ret' = Return("execute_scheduled_task_job", id, "returned", tasks[id].status)
              /\ UNCHANGED posts
         ELSE /\ posts' = [posts EXCEPT ![id] = @ + 1]
              /\ procs' = [procs EXCEPT ![w][id].pc = "posting"]
              /\ ret' = NoReturn
              /\ UNCHANGED tasks
    /\ UNCHANGED <<jobs, now, restarts, created, cancelled, evaluated, config, calls>>

\* a classification without raise_for_status: any answer counts as success
OutcomeStatusNoRaise(outcome) ==
    IF outcome \in {"2xx_json", "2xx_empty", "http_error"} THEN COMPLETED ELSE FAILED

\* lines 216-231: classify the outcome of the POST and record it
OutcomeStatus(outcome) == IF outcome \in {"2xx_json", "2xx_empty"} THEN COMPLETED ELSE FAILED

OutcomeResult(outcome) ==
    CASE outcome = "2xx_json" -> "body"
      [] outcome = "2xx_empty" -> ""
      [] outcome = "2xx_not_json" -> "unexpected_error"
      [] outcome = "http_error" -> "http_error"
      [] outcome = "request_error" -> "request_error"

\* a response handling that repeats the POST after a network error
ExecResponseRetries(w, id, outcome) ==
    /\ procs[w][id].pc = "posting"
    /\ IF outcome = "request_error"
       THEN /\ posts' = [posts EXCEPT ![id] = @ + 1]
            /\ ret' = NoReturn
            /\ UNCHANGED <<tasks, procs>>
       ELSE /\ update_task_status_in_db(id, OutcomeStatus(outcome), OutcomeResult(outcome))
            /\ procs' = [procs EXCEPT ![w][id] = Idle]
            /\ ret' = Return("execute_scheduled_task_job", id, "returned", tasks[id].status)
            /\ UNCHANGED posts
    /\ UNCHANGED <<jobs, now, restarts, created, cancelled, evaluated, config, calls>>

ExecResponse(w, id, outcome) ==
    /\ procs[w][id].pc = "posting"
    /\ update_task_status_in_db(id, OutcomeStatus(outcome), OutcomeResult(outcome))
    /\ procs' = [procs EXCEPT ![w][id] = Idle]
    /\ ret' = Return("execute_scheduled_task_job", id, "returned", tasks[id].status)
    /\ UNCHANGED <<jobs, posts, now, restarts, created, cancelled, evaluated, config, calls>>

\* delete_task as a soft cancel: the row is kept and stored as CANCELLED
delete_task_soft(id, remove_job_raises) ==
    IF ~Exists(id)
    THEN /\ ret' = Return("delete_task", id, "False", "absent")
         /\ UNCHANGED <<tasks, jobs, procs, posts, now, restarts, created, cancelled,
                        evaluated, config, calls>>
    ELSE /\ jobs' = IF jobs[id] # NoJob /\ ~remove_job_raises
                    THEN [jobs EXCEPT ![id] = NoJob] ELSE jobs
         /\ tasks' = [tasks EXCEPT ![id].status = CANCELLED]
         /\ cancelled' = IF tasks[id].status = PENDING /\ ~Loaded(id)
                         THEN cancelled \cup {id} ELSE cancelled
         /\ ret' = Return("delete_task", id, "True", tasks[id].status)
         /\ UNCHANGED <<procs, posts, now, restarts, created, evaluated, config, calls>>

\* delete_task that only cancels tasks still PENDING and refuses the others
delete_task_pending_only(id, remove_job_raises) ==
    IF ~Exists(id) \/ tasks[id].status # PENDING
    THEN /\ ret' = Return("delete_task", id, "False", tasks[id].status)
         /\ UNCHANGED <<tasks, jobs, procs, posts, now, restarts, created, cancelled,
                        evaluated, config, calls>>
    ELSE /\ jobs' = IF jobs[id] # NoJob /\ ~remove_job_raises
                    THEN [jobs EXCEPT ![id] = NoJob] ELSE jobs
         /\ tasks' = [tasks EXCEPT ![id] = NoTask]
         /\ cancelled' = IF ~Loaded(id) THEN cancelled \cup {id} ELSE cancelled
         /\ ret' = Return("delete_task", id, "True", tasks[id].status)
         /\ UNCHANGED <<procs, posts, now, restarts, created, evaluated, config, calls>>

\* delete_task that removes the trigger before it looks the record up
delete_task_removes_job_first(id, remove_job_raises) ==
    /\ jobs' = IF jobs[id] # NoJob /\ ~remove_job_raises
               THEN [jobs EXCEPT ![id] = NoJob] ELSE jobs
    /\ tasks' = [tasks EXCEPT ![id] = NoTask]
    /\ cancelled' = IF tasks[id].status = PENDING /\ ~Loaded(id)
                    THEN cancelled \cup {id} ELSE cancelled
    /\ ret' = Return("delete_task", id, IF Exists(id) THEN "True" ELSE "False",
                     tasks[id].status)
    /\ UNCHANGED <<procs, posts, now, restarts, created, evaluated, config, calls>>

\* delete_task that answers True without having removed the row
delete_task_keeps_row(id, remove_job_raises) ==
    IF ~Exists(id)
    THEN /\ ret' = Return("delete_task", id, "False", "absent")
         /\ UNCHANGED <<tasks, jobs, procs, posts, now, restarts, created, cancelled,
                        evaluated, config, calls>>
    ELSE /\ jobs' = IF jobs[id] # NoJob /\ ~remove_job_raises
                    THEN [jobs EXCEPT ![id] = NoJob] ELSE jobs
         /\ cancelled' = IF tasks[id].status = PENDING /\ ~Loaded(id)
                         THEN cancelled \cup {id} ELSE cancelled
         /\ ret' = Return("delete_task", id, "True", tasks[id].status)
         /\ UNCHANGED <<tasks, procs, posts, now, restarts, created, evaluated, config, calls>>

\* SchedulerService.delete_task: not found -> False; otherwise remove_job
\* (JobLookupError and any other exception are logged), delete the row, True.
delete_task(id, remove_job_raises) ==
    IF ~Exists(id)
    THEN /\ ret' = Return("delete_task", id, "False", "absent")
         /\ UNCHANGED <<tasks, jobs, procs, posts, now, restarts, created, cancelled,
                        evaluated, config, calls>>
    ELSE /\ jobs' = IF jobs[id] # NoJob /\ ~remove_job_raises
                    THEN [jobs EXCEPT ![id] = NoJob] ELSE jobs
         /\ tasks' = [tasks EXCEPT ![id] = NoTask]
         /\ cancelled' = IF tasks[id].status = PENDING /\ ~Loaded(id)
                         THEN cancelled \cup {id} ELSE cancelled
         /\ ret' = Return("delete_task", id, "True", tasks[id].status)
         /\ UNCHANGED <<procs, posts, now, restarts, created, evaluated, config, calls>>

\* create_db_and_tables: DROP TABLE IF EXISTS scheduled_tasks CASCADE runs on
\* PostgreSQL; SQLite rejects the statement and the fallback create_all keeps
\* the table.
create_db_and_tables ==
    IF dialect = "postgresql" THEN [id \in Ids |-> NoTask] ELSE tasks

\* process w stops (its running coroutines are lost) and starts again:
\* startup_event calls create_db_and_tables and starts the scheduler, which
\* reads apscheduler_jobs as it is.
Restart(w) ==
    /\ w \in workers
    /\ restarts < MaxRestarts
    /\ restarts' = restarts + 1
    /\ procs' = [procs EXCEPT ![w] = [id \in Ids |-> Idle]]
    /\ tasks' = create_db_and_tables
    /\ ret' = NoReturn
    /\ UNCHANGED <<jobs, posts, now, created, cancelled, evaluated, config, calls>>

Next ==
    \/ \E id \in Ids, pf \in TargetPlatform, at \in SchedTimes, f \in BOOLEAN :
          create_task(id, pf, at, f)
    \/ \E W \in SUBSET Workers, id \in Ids : ProcessJob(W, id)
    \/ \E w \in Workers, id \in Ids : ExecRead(w, id)
    \/ \E w \in Workers, id \in Ids : ExecMarkRunning(w, id)
    \/ \E w \in Workers, id \in Ids : ExecDispatch(w, id)
    \/ \E w \in Workers, id \in Ids, o \in Outcomes : ExecResponse(w, id, o)
    \/ \E id \in Ids, f \in BOOLEAN : delete_task(id, f)
    \/ \E w \in Workers : Restart(w)
    \/ Tick

Spec == Init /\ [][Next]_vars
PoolSpec == PoolInit /\ [][Next]_vars
ConfigSpec == ConfigInit /\ [][Next]_vars

\* ------------------------------------------------ payload conversions
\* json.dumps / model_dump_json: the text of a value, as tokens
RECURSIVE json_dumps(_), DumpKids(_, _, _)
json_dumps(val) ==
    IF val.t = "dict"
    THEN <<Tok("{", "")>> \o DumpKids(val.kids, 1, TRUE) \o <<Tok("}", "")>>
    ELSE IF val.t = "list"
    THEN <<Tok("[", "")>> \o DumpKids(val.kids, 1, FALSE) \o <<Tok("]", "")>>
    ELSE <<Tok(val.t, val.v)>>

DumpKids(kids, i, keyed) ==
    IF i > Len(kids) THEN <<>>
    ELSE (IF i > 1 THEN <<Tok(",", "")>> ELSE <<>>)
         \o (IF keyed THEN <<Tok("str", kids[i][1]), Tok(":", "")>> ELSE <<>>)
         \o json_dumps(kids[i][2])
         \o DumpKids(kids, i + 1, keyed)

\* json.loads: the value of a text; Parse gives the value at the front of
\* the tokens and the tokens after it
RECURSIVE Parse(_), ParseKids(_, _, _)
Parse(toks) ==
    LET h == Head(toks) IN
    IF h.k \in {"{", "["}
    THEN IF Tail(toks)[1].k \in {"}", "]"}
         THEN [val |-> [t |-> IF h.k = "{" THEN "dict" ELSE "list", v |-> "", kids |-> <<>>],
               rest |-> Tail(Tail(toks))]
         ELSE ParseKids(Tail(toks), <<>>, h.k = "{")
    ELSE [val |-> [t |-> h.k, v |-> h.s, kids |-> <<>>], rest |-> Tail(toks)]

ParseKids(toks, acc, keyed) ==
    LET key == IF keyed THEN toks[1].s ELSE ""
        item == Parse(IF keyed THEN Tail(Tail(toks)) ELSE toks)
        kids == Append(acc, <<key, item.val>>)
    IN  IF Head(item.rest).k = ","
        THEN ParseKids(Tail(item.rest), kids, keyed)
        ELSE [val |-> [t |-> IF keyed THEN "dict" ELSE "list", v |-> "", kids |-> kids],
              rest |-> Tail(item.rest)]

json_loads(toks) == Parse(toks).val

\* dict.get(key, default)
get(dict, key, default) ==
    IF \E i \in 1..Len(dict.kids) : dict.kids[i][1] = key
    THEN dict.kids[CHOOSE i \in 1..Len(dict.kids) : dict.kids[i][1] = key][2]
    ELSE default

\* task_in.task_payload.model_dump_json() (create_task line 76)
model_dump_json(payload) ==
    json_dumps(JDict(<< <<"mcp_target_endpoint", JStr(payload.mcp_target_endpoint)>>,
                        <<"mcp_request_body", payload.mcp_request_body>>,
                        <<"user_platform_tokens", payload.user_platform_tokens>> >>))

\* create_task lines 70-83: the row built from the request
ScheduledTaskRow(payload) ==
    [status |-> PENDING, result |-> "none",
     task_payload_json |-> model_dump_json(payload),
     user_platform_tokens_json |-> json_dumps(payload.user_platform_tokens),
     created_at_utc |-> now, updated_at_utc |-> now]

\* a conversion that takes the tokens out of task_payload_json under a key
\* the stored text does not have
convert_tokens_from_payload(row) ==
    LET task_payload_data == json_loads(row.task_payload_json)
    IN  ScheduledTaskPayload(get(task_payload_data, "mcp_target_endpoint", JStr("")).v,
                             get(task_payload_data, "mcp_request_body", JDict(<<>>)),
                             get(task_payload_data, "platform_tokens", JDict(<<>>)))

\* convert_task_orm_to_pydantic (api_router.py 36-61): the task_payload of
\* the response
convert_task_orm_to_pydantic(row) ==
    LET task_payload_data == json_loads(row.task_payload_json)
        user_platform_tokens_data == json_loads(row.user_platform_tokens_json)
    IN  ScheduledTaskPayload(get(task_payload_data, "mcp_target_endpoint", JStr("")).v,
                             get(task_payload_data, "mcp_request_body", JDict(<<>>)),
                             user_platform_tokens_data)

\* create_task lines 70-86: store the row of the request
StoreTask ==
    /\ db_task = NoRow
    /\ db_task' = ScheduledTaskRow(task_in)
    /\ UNCHANGED <<task_in, response, table, listed, service>>

\* a status update that leaves updated_at_utc as it was
StampedNot(row) == row

\* update_task_status_in_db line 133: task.updated_at_utc = utcnow()
Stamped(row) == [row EXCEPT !.updated_at_utc = now]

\* the writes of a dispatch (lines 189, 202, 219-231) on the stored row
DispatchWrite(status, result) ==
    /\ <<db_task.status, status>> \in
            {<<PENDING, RUNNING>>, <<RUNNING, COMPLETED>>, <<RUNNING, FAILED>>}
    /\ db_task' = Stamped(UpdatedRow(db_task, status, result))
    /\ UNCHANGED <<task_in, response, table, listed, service>>

\* GET /tasks/{task_id} (api_router.py 122-136)
get_task ==
    /\ db_task # NoRow
    /\ response' = convert_task_orm_to_pydantic(db_task)
    /\ UNCHANGED <<task_in, db_task, table, listed, service>>

PayloadInit ==
    /\ InitState
    /\ workers = {1}
    /\ MCP_LINKEDIN_BASE_URL = DefaultBaseUrl
    /\ task_in \in ScheduledTaskPayloads
    /\ db_task = NoRow
    /\ response = NoPayload
    /\ table = <<>>
    /\ listed = NotListed

PayloadNext ==
    \/ StoreTask
    \/ \E st \in {RUNNING, COMPLETED, FAILED}, res \in {"", "body", "http_error"} :
          DispatchWrite(st, res)
    \/ get_task

PayloadSpec == PayloadInit /\ [][PayloadNext]_vars

\* ------------------------------------------------------------ timestamps
\* one request, stored and dispatched while the clock advances
TimestampInit ==
    /\ InitState
    /\ workers = {1}
    /\ MCP_LINKEDIN_BASE_URL = DefaultBaseUrl
    /\ task_in = ScheduledTaskPayload("/email/send", JDict(<<>>), JDict(<<>>))
    /\ db_task = NoRow
    /\ response = NoPayload
    /\ table = <<>>
    /\ listed = NotListed

TimestampNext ==
    \/ StoreTask
    \/ \E st \in {RUNNING, COMPLETED, FAILED}, res \in {"", "body", "http_error"} :
          DispatchWrite(st, res)
    \/ Tick

TimestampSpec == TimestampInit /\ [][TimestampNext]_vars

\* ------------------------------------------------------------- get_tasks
\* a row of scheduled_tasks with the columns get_tasks filters on
TaskRows ==
    [genia_user_id : Owners, status : {PENDING, COMPLETED}, platform_name : TargetPlatform]

RECURSIVE Tables(_)
Tables(n) ==
    IF n = 0 THEN {<<>>}
    ELSE Tables(n - 1) \cup {Append(t, r) : t \in {u \in Tables(n - 1) : Len(u) = n - 1},
                                            r \in TaskRows}

\* the truth value Python gives an Optional filter in "if <filter>:"
Truthy(filter) == filter # None /\ filter # ""

\* SchedulerService.get_tasks (lines 108-122)
get_tasks(genia_user_id, status, platform_name) ==
    SelectSeq(table, LAMBDA r :
        /\ Truthy(genia_user_id) => r.genia_user_id = genia_user_id
        /\ Truthy(status) => r.status = status
        /\ Truthy(platform_name) => r.platform_name = platform_name)

\* GET /tasks (api_router.py 103-120)
list_tasks(genia_user_id, status_filter, platform) ==
    /\ listed' = [genia_user_id |-> genia_user_id, status |-> status_filter,
                  platform_name |-> platform,
                  tasks |-> get_tasks(genia_user_id, status_filter, platform),
                  called |-> TRUE]
    /\ UNCHANGED <<task_in, db_task, response, table, service>>

ListInit ==
    /\ InitState
    /\ workers = {1}
    /\ MCP_LINKEDIN_BASE_URL = DefaultBaseUrl
    /\ table \in Tables(MaxRows)
    /\ listed = NotListed
    /\ task_in = NoPayload
    /\ db_task = NoRow
    /\ response = NoPayload

ListNext ==
    \E o \in Owners \cup {None, ""}, st \in {None, PENDING, COMPLETED, FAILED},
       pf \in TargetPlatform \cup {None} : list_tasks(o, st, pf)

ListSpec == ListInit /\ [][ListNext]_vars
\* ------------------------------------------------------------------ claims
\* C1: at most one dispatch per task id: however the firings of one id
\* interleave, no more than one outbound POST is made for that id.
C1AtMostOneDispatch == \A id \in Ids : posts[id] <= 1

\* the edges of the state machine of the lifecycle manager
StatusEdges ==
    {<<PENDING, RUNNING>>, <<RUNNING, COMPLETED>>, <<RUNNING, FAILED>>,
     <<PENDING, CANCELLED>>, <<RUNNING, CANCELLED>>}

\* C2: every change of the stored status of a task is one of the edges
\* PENDING->RUNNING, RUNNING->COMPLETED, RUNNING->FAILED, PENDING->CANCELLED,
\* RUNNING->CANCELLED (so COMPLETED and FAILED are only entered from RUNNING).
C2StatusEdges ==
    [][\A id \in Ids :
          (Exists(id) /\ tasks'[id] # NoTask /\ tasks'[id].status # tasks[id].status)
              => <<tasks[id].status, tasks'[id].status>> \in StatusEdges]_vars

\* C3: a task stored as COMPLETED is never stored as FAILED afterwards, and
\* a task stored as FAILED is never stored as COMPLETED afterwards (a row
\* leaves a terminal status only by such a write or by being removed, and a
\* removed id is never created again).
C3CompletedFailedExclusive ==
    [][\A id \in Ids :
          /\ tasks[id].status = COMPLETED => tasks'[id].status # FAILED
          /\ tasks[id].status = FAILED => tasks'[id].status # COMPLETED]_vars

\* C4: a restart of a process leaves every task record as it was.
C4DurableAcrossRestart == [][restarts' # restarts => tasks' = tasks]_vars

\* C5: after a restart the job store holds a trigger for exactly the task
\* ids whose record is PENDING or RUNNING.
C5Reconciled ==
    [][restarts' # restarts =>
          \A id \in Ids : (jobs'[id] # NoJob) <=>
                              (tasks'[id].status \in {PENDING, RUNNING})]_vars
\* nothing is left that could dispatch the task: no trigger, no execution
Quiescent(id) == jobs[id] = NoJob /\ \A w \in Workers : procs[w][id] = Idle

\* C6: every created task that is not cancelled ends dispatched and stored
\* as COMPLETED or FAILED: while no process was restarted, a task that has
\* neither a trigger nor an execution left, and whose run was not missed by
\* more than the grace window, has had its outbound call and is in one of
\* the two final statuses.
C6EventuallyTerminal ==
    \A id \in Ids :
        (/\ Exists(id)
         /\ Quiescent(id)
         /\ restarts = 0
         /\ evaluated[id] * SecondsPerTick <= MISFIRE_GRACE_TIME)
            => (tasks[id].status \in {COMPLETED, FAILED} /\ posts[id] >= 1)

\* the trigger of a stored task is evaluated in this step: its job leaves the
\* job store while its row stays as it is
TriggerEvaluated(id) ==
    /\ jobs[id] # NoJob
    /\ jobs'[id] = NoJob
    /\ Exists(id)
    /\ tasks'[id] = tasks[id]

\* seconds between run_date and the evaluation of the trigger
Lateness(id) == (now - jobs[id]) * SecondsPerTick

Submitted(id) == \E w \in Workers : procs[w][id] = Idle /\ procs'[w][id].pc = "start"

C8WithinGraceRuns ==
    [][\A id \in Ids :
          (TriggerEvaluated(id) /\ Lateness(id) <= MISFIRE_GRACE_TIME)
              => Submitted(id)]_vars

C8Witness ==
    \E id \in Ids, w \in Workers :
        /\ evaluated[id] > 0
        /\ evaluated[id] * SecondsPerTick < MISFIRE_GRACE_TIME
        /\ procs[w][id].pc = "posting"

C11BaseAddressResolvable ==
    (ret.op = "execute_scheduled_task_job" /\ ret.value = "returned")
        => posts[ret.id] >= 1

\* C12: a non-2xx answer ends the execution with the task FAILED and the
\* error (status line and response text) as its result, without another
\* call and without a new trigger; a task holding that result is FAILED and
\* was called once.
C12NonSuccessFails ==
    /\ [][\A w \in Workers, id \in Ids :
            ExecResponse(w, id, "http_error") =>
                /\ posts' = posts
                /\ jobs' = jobs
                /\ procs'[w][id] = Idle
                /\ Exists(id) => /\ tasks'[id].status = FAILED
                                 /\ tasks'[id].result = "http_error"]_vars
    /\ [](\A id \in Ids :
            (Exists(id) /\ tasks[id].result = "http_error")
                => (tasks[id].status = FAILED /\ posts[id] = 1))

C12Witness ==
    \E id \in Ids :
        /\ tasks[id].status = FAILED
        /\ tasks[id].result = "http_error"
        /\ posts[id] = 1
        /\ ret = Return("execute_scheduled_task_job", id, "returned", RUNNING)

\* C13: create_task returns the stored record with status PENDING even when
\* add_job failed, and a restart registers a trigger for every PENDING task
\* whose trigger was never evaluated.
C13RegisteredAtStartup ==
    [][/\ ret'.op = "create_task" =>
            (ret'.value = "record" /\ tasks'[ret'.id].status = PENDING)
       /\ restarts' # restarts =>
            \A id \in Ids :
                (tasks'[id].status = PENDING /\ evaluated[id] = NotEvaluated)
                    => jobs'[id] # NoJob]_vars

\* C14: after a restart every task stored as RUNNING has a trigger again.
C14RunningRedispatched ==
    [][restarts' # restarts =>
          \A id \in Ids : tasks'[id].status = RUNNING => jobs'[id] # NoJob]_vars

\* C15 as stated: delete_task on a COMPLETED task does not answer True with
\* the store changed.
C15NoEffectOnCompleted ==
    [][(ret'.op = "delete_task" /\ tasks[ret'.id].status = COMPLETED)
          => ~(ret'.value = "True" /\ tasks' # tasks)]_vars

\* C15 amended: delete_task on a COMPLETED task answers True and removes the
\* record, making no outbound call.
C15DeleteCompletedRemoves ==
    [][(ret'.op = "delete_task" /\ tasks[ret'.id].status = COMPLETED)
          => /\ ret'.value = "True"
             /\ tasks'[ret'.id] = NoTask
             /\ posts' = posts]_vars

C15Witness ==
    /\ ret.op = "delete_task"
    /\ ret.found = COMPLETED
    /\ ret.value = "True"
    /\ ~Exists(ret.id)

\* C16: delete_task for an id with no record answers False and leaves the
\* records and the job store as they were; this includes an id that an
\* earlier delete_task removed.
C16DeleteUnknown ==
    [][(ret'.op = "delete_task" /\ ~Exists(ret'.id))
          => /\ ret'.value = "False"
             /\ tasks' = tasks
             /\ jobs' = jobs]_vars

C16Witness ==
    /\ ret.op = "delete_task"
    /\ ret.value = "False"
    /\ ret.id <= created
    /\ restarts = 0
    /\ ~Exists(ret.id)

\* C19: an execution that starts for an id whose record is absent, or
\* stored as COMPLETED, FAILED or CANCELLED, returns at the guard: it writes
\* no record and makes no outbound call.
C19GuardSkips ==
    [][\A w \in Workers, id \in Ids :
          (/\ procs[w][id].pc = "start"
           /\ procs'[w][id].pc # "start"
           /\ restarts' = restarts
           /\ tasks[id].status \notin {PENDING, RUNNING})
              => /\ procs'[w][id] = Idle
                 /\ tasks' = tasks
                 /\ posts' = posts
                 /\ ret' = Return("execute_scheduled_task_job", id, "skipped",
                                  tasks[id].status)]_vars

C19Witness ==
    /\ ret.op = "execute_scheduled_task_job"
    /\ ret.value = "skipped"
    /\ ret.found \in {COMPLETED, FAILED}
    /\ tasks[ret.id].status = ret.found
    /\ posts[ret.id] = 1

\* C20: when execute_scheduled_task_job returns from an execution that
\* passed the guard and the record still exists, the record is COMPLETED or
\* FAILED.
C20NeverLeftRunning ==
    (ret.op = "execute_scheduled_task_job" /\ ret.value = "returned" /\ Exists(ret.id))
        => tasks[ret.id].status \in {COMPLETED, FAILED}

C20Witness ==
    /\ ret.op = "execute_scheduled_task_job"
    /\ ret.value = "returned"
    /\ tasks[ret.id].status = FAILED
    /\ tasks[ret.id].result = "wrapper_error"
    /\ posts[ret.id] = 0

Matching(genia_user_id, status, platform_name) ==
    SelectSeq(table, LAMBDA r :
        /\ genia_user_id # None => r.genia_user_id = genia_user_id
        /\ status # None => r.status = status
        /\ platform_name # None => r.platform_name = platform_name)

\* C18: get_tasks returns exactly the stored rows that match every filter
\* supplied among owner, status and platform, an empty-string owner included.
C18ExactlyMatching ==
    listed.called =>
        listed.tasks = Matching(listed.genia_user_id, listed.status, listed.platform_name)

\* C21: every 2xx answer to the outbound call, whatever its body, leaves
\* the task (when its record still exists) stored as COMPLETED.
C21Every2xxCompletes ==
    [][\A w \in Workers, id \in Ids, o \in {"2xx_json", "2xx_empty", "2xx_not_json"} :
          (ExecResponse(w, id, o) /\ Exists(id)) => tasks'[id].status = COMPLETED]_vars

\* C22: the write that stores COMPLETED after a 2xx answer also stores the
\* parsed body as the result, an empty object or list included.
C22ResultIsBody ==
    [][\A w \in Workers, id \in Ids, o \in {"2xx_json", "2xx_empty"} :
          (ExecResponse(w, id, o) /\ Exists(id))
              => (tasks'[id].status = COMPLETED /\ tasks'[id].result = OutcomeResult(o))]_vars

\* the platform has no base address: its setting is empty or not declared
NoBaseAddress(platform) == _get_mcp_base_url(platform) \in {"", "AttributeError"}

\* C23: when the execution of a task whose platform has no base address
\* returns, the task was RUNNING and is now FAILED with a result naming the
\* missing configuration, no outbound call was made and no trigger is
\* registered for it.
C23MissingAddressFails ==
    (/\ ret.op = "execute_scheduled_task_job"
     /\ ret.value = "returned"
     /\ Exists(ret.id)
     /\ NoBaseAddress(tasks[ret.id].platform))
        => /\ ret.found = RUNNING
           /\ tasks[ret.id].status = FAILED
           /\ tasks[ret.id].result =
                  IF tasks[ret.id].platform = EMAIL THEN "wrapper_error"
                  ELSE "url_not_configured"
           /\ posts[ret.id] = 0
           /\ jobs[ret.id] = NoJob

C23Witness ==
    /\ ret.op = "execute_scheduled_task_job"
    /\ ret.value = "returned"
    /\ ret.found = RUNNING
    /\ MCP_LINKEDIN_BASE_URL = ""
    /\ tasks[ret.id].platform = LINKEDIN
    /\ tasks[ret.id].status = FAILED
    /\ tasks[ret.id].result = "url_not_configured"
    /\ posts[ret.id] = 0

\* C24: a network or timeout error of the outbound call ends the execution
\* with the task FAILED and the error description as its result, without
\* another call and without a new trigger; no task id is ever called more
\* than once by its firing.
C24NoRetry ==
    /\ [][\A w \in Workers, id \in Ids :
            ExecResponse(w, id, "request_error") =>
                /\ posts' = posts
                /\ jobs' = jobs
                /\ procs'[w][id] = Idle
                /\ Exists(id) => /\ tasks'[id].status = FAILED
                                 /\ tasks'[id].result = "request_error"]_vars
    /\ [](\A id \in Ids : posts[id] <= 1 /\ (posts[id] = 1 => jobs[id] = NoJob))

C24Witness ==
    \E id \in Ids :
        /\ tasks[id].status = FAILED
        /\ tasks[id].result = "request_error"
        /\ posts[id] = 1
        /\ jobs[id] = NoJob
        /\ ret = Return("execute_scheduled_task_job", id, "returned", RUNNING)

\* the record of id was deleted in the last step, during the outbound call
\* of process w
DeletedInFlight(w, id) ==
    /\ ret = Return("delete_task", id, "True", RUNNING)
    /\ procs[w][id].pc = "posting"

\* C25 as stated: when the execution ends (the answer to its outbound call
\* arrives) after a delete_task that ran during the call, the stored state
\* of the task is the terminal status the dispatcher records.
C25DispatcherWins ==
    [][\A w \in Workers, id \in Ids :
          (DeletedInFlight(w, id) /\ procs'[w][id] = Idle /\ restarts' = restarts)
              => (Exists(id)' /\ tasks'[id].status \in {COMPLETED, FAILED})]_vars

\* C25 amended: a delete_task during the outbound call leaves the call in
\* flight and removes the record, and the answer that arrives after it
\* stores nothing: the record stays absent after the execution returns.
C25DeleteWins ==
    /\ [][\A w \in Workers, id \in Ids :
            /\ (procs[w][id].pc = "posting" /\ ret'.op = "delete_task" /\ ret'.id = id)
                  => (procs' = procs /\ posts' = posts /\ ~Exists(id)')
            /\ (DeletedInFlight(w, id) /\ procs'[w][id] = Idle /\ restarts' = restarts)
                  => (tasks' = tasks /\ posts' = posts)]_vars
    /\ []((/\ ret.op = "execute_scheduled_task_job"
            /\ ret.value = "returned"
            /\ ret.found = "absent"
            /\ posts[ret.id] >= 1)
              => (~Exists(ret.id) /\ posts[ret.id] = 1))

C25Witness ==
    /\ ret.op = "execute_scheduled_task_job"
    /\ ret.value = "returned"
    /\ ret.found = "absent"
    /\ posts[ret.id] = 1
    /\ ~Exists(ret.id)
    /\ restarts = 0

\* C26: every trigger registered in the job store has the id of a stored
\* task whose status is PENDING or RUNNING.
C26JobsSubordinate ==
    \A id \in Ids :
        jobs[id] # NoJob => (Exists(id) /\ tasks[id].status \in {PENDING, RUNNING})

\* C27: updated_at_utc is never before created_at_utc and never decreases,
\* the row is created with both set to the time of the commit, and every
\* write that changes the status or the result sets updated_at_utc to the
\* time of that write.
C27Timestamps ==
    /\ [][/\ (db_task = NoRow /\ db_task' # NoRow)
                => (db_task'.created_at_utc = now /\ db_task'.updated_at_utc = now)
          /\ (db_task # NoRow /\ db_task' # NoRow)
                => /\ db_task'.created_at_utc = db_task.created_at_utc
                   /\ db_task'.updated_at_utc >= db_task.updated_at_utc
                   /\ ((db_task'.status # db_task.status \/ db_task'.result # db_task.result)
                         => db_task'.updated_at_utc = now)]_vars
    /\ [](db_task # NoRow => db_task.updated_at_utc >= db_task.created_at_utc)

C27Witness ==
    /\ db_task.status = COMPLETED
    /\ db_task.result = "body"
    /\ db_task.created_at_utc > 0
    /\ db_task.updated_at_utc > db_task.created_at_utc
    /\ now > db_task.updated_at_utc

\* C28: while the record of a task exists, no step changes its platform or
\* its scheduled_at_utc (the record is reached by the same task_id).
C28ImmutableSchedule ==
    [][\A id \in Ids :
          (Exists(id) /\ Exists(id)')
              => /\ tasks'[id].platform = tasks[id].platform
                 /\ tasks'[id].sched = tasks[id].sched]_vars

C28Witness ==
    \E id \in Ids :
        /\ tasks[id].status = COMPLETED
        /\ tasks[id].result = "body"
        /\ tasks[id].sched = MaxSched
        /\ tasks[id].platform = LINKEDIN
        /\ posts[id] = 1

\* C29: no stored task has status CANCELLED (each has PENDING, RUNNING,
\* COMPLETED or FAILED), and a delete_task that returned True has removed
\* the record.
C29HardDeleteOnly ==
    /\ \A id \in Ids :
          Exists(id) => tasks[id].status \in {PENDING, RUNNING, COMPLETED, FAILED}
    /\ (ret.op = "delete_task" /\ ret.value = "True") => ~Exists(ret.id)

C29Witness ==
    /\ ret = Return("delete_task", ret.id, "True", FAILED)
    /\ ret.id \in Ids
    /\ ~Exists(ret.id)
    /\ posts[ret.id] = 1
====
